---- MODULE Spec2Model ----
(***************************************************************************)
(* Speaker display of src/script.py: the schedule built by load_schedule,  *)
(* the display state computed by compute_display_state and the status      *)
(* line painted by SpeakerDisplayApp.update on every tick.                 *)
(*                                                                         *)
(* Instants are whole seconds since midnight of the conference date:       *)
(* load_schedule builds starts from HH:MM and ends from whole minutes, and *)
(* update truncates the wall clock to whole seconds.  An event is a record *)
(* [type, start, end]; the display-only fields (speaker, title, synopsis,  *)
(* track, date) do not influence the state and are left out.  A type is    *)
(* the sequence of its characters.  The events of a state are named by     *)
(* their position in the schedule (Python object identity), None being no  *)
(* event.                                                                  *)
(***************************************************************************)
EXTENDS Integers, Sequences, FiniteSets

VARIABLES schedule, now, state, status

vars == <<schedule, now, state, status>>

\* ---------------------------------------------------------------- bounds
MaxEvents == 2

\* ------------------------------------------------------------- constants
None == 0
NoSeconds == -1
SECONDS_BEFORE_INTERMISSION_WARNING == 5 * 60

HHMMSS(h, m, s) == (h * 60 + m) * 60 + s

\* Start Time cells (HH:MM) and Duration cells (minutes) of the rows.
StartTimes == {HHMMSS(9, 0, 0), HHMMSS(9, 30, 0)}
Durations == {0, 15, 30, 60}

\* Type values.  load_schedule stores the Type cell trimmed;
\* compute_display_state trims and lower-cases again whatever it is given,
\* so a padded upper-case value is among the types it is applied to.
Talk == <<"T", "a", "l", "k">>
Break == <<"B", "r", "e", "a", "k">>
SocialPadded == <<" ", "S", "O", "C", "I", "A", "L", "\t">>
Types == {Talk, Break, SocialPadded}

\* Instants at which the clock is read.
Nows ==
    {HHMMSS(8, 54, 59), HHMMSS(8, 55, 0), HHMMSS(8, 59, 59),
     HHMMSS(9, 0, 0), HHMMSS(9, 15, 0), HHMMSS(9, 24, 59),
     HHMMSS(9, 25, 0), HHMMSS(9, 27, 0), HHMMSS(9, 28, 0),
     HHMMSS(9, 30, 0), HHMMSS(9, 35, 0), HHMMSS(9, 45, 0),
     HHMMSS(9, 50, 0), HHMMSS(10, 30, 0)}

\* ------------------------------------------------------------ load_schedule
\* One parsed row: end = start + timedelta(minutes = duration).
Event(type, start, duration) ==
    [type |-> type, start |-> start, end |-> start + duration * 60]

Events == {Event(t, s, d) : t \in Types, s \in StartTimes, d \in Durations}

\* schedule.sort(key = start): ascending by start, ties in file order.
IsSorted(sch) ==
    \A i \in 1..Len(sch) : \A j \in 1..Len(sch) :
        i < j => sch[i].start <= sch[j].start

load_schedule ==
    {sch \in UNION {[1..n -> Events] : n \in 0..MaxEvents} : IsSorted(sch)}

\* ------------------------------------------------------------ str methods
Whitespace == {" ", "\t", "\n", "\r"}

RECURSIVE lstrip(_)
lstrip(s) ==
    IF s # <<>> /\ Head(s) \in Whitespace THEN lstrip(Tail(s)) ELSE s

RECURSIVE rstrip(_)
rstrip(s) ==
    IF s # <<>> /\ s[Len(s)] \in Whitespace
    THEN rstrip(SubSeq(s, 1, Len(s) - 1))
    ELSE s

strip(s) == rstrip(lstrip(s))

lower_char(c) ==
    CASE c = "A" -> "a" [] c = "B" -> "b" [] c = "C" -> "c"
      [] c = "I" -> "i" [] c = "L" -> "l" [] c = "O" -> "o"
      [] c = "S" -> "s" [] c = "T" -> "t"
      [] OTHER -> c

lower(s) == [i \in 1..Len(s) |-> lower_char(s[i])]

\* ---------------------------------------------------- compute_display_state
\* Faulty variants of the interval test: start excluded; end included.
is_current_start_excluded(e, t) == e.start < t /\ t < e.end

is_current_end_included(e, t) == e.start <= t /\ t <= e.end

is_current(e, t) == e.start <= t /\ t < e.end

\* Faulty variant of the upcoming test: comparison reversed.
is_upcoming_reversed(e, t) == e.start <= t

is_upcoming(e, t) == e.start >= t

\* Faulty variant of the scan: stops at the first match instead of keeping the last.
scan_current_first_wins(sch, t, i) ==
    IF \E j \in 1..i : is_current(sch[j], t)
    THEN CHOOSE j \in 1..i :
             /\ is_current(sch[j], t)
             /\ \A k \in 1..(j - 1) : ~is_current(sch[k], t)
    ELSE None

\* Faulty variant of the scan: the last event of the schedule is never looked at.
scan_current_skips_last(sch, t, i) ==
    IF \E j \in 1..(i - 1) : is_current(sch[j], t)
    THEN CHOOSE j \in 1..(i - 1) :
             /\ is_current(sch[j], t)
             /\ \A k \in (j + 1)..(i - 1) : ~is_current(sch[k], t)
    ELSE None

\* The scan assigns current at every match, so the last match stays.
RECURSIVE scan_current(_, _, _)
scan_current(sch, t, i) ==
    IF i = 0 THEN None
    ELSE IF is_current(sch[i], t) THEN i
    ELSE scan_current(sch, t, i - 1)

\* upcoming, as the ascending positions of the events appended to it.
RECURSIVE scan_upcoming(_, _, _)
scan_upcoming(sch, t, i) ==
    IF i > Len(sch) THEN <<>>
    ELSE IF is_upcoming(sch[i], t)
         THEN <<i>> \o scan_upcoming(sch, t, i + 1)
         ELSE scan_upcoming(sch, t, i + 1)

\* Faulty variant of the subtraction: operands swapped.
total_seconds_swapped(start, t) == t - start

total_seconds(start, t) == start - t

max0(n) == IF n > 0 THEN n ELSE 0

BreakTypes == {<<"b", "r", "e", "a", "k">>, <<"s", "o", "c", "i", "a", "l">>}

\* Faulty variants of the classification: threshold exclusive; type not trimmed;
\* type not lower-cased.
between_talks_mode_exclusive(type, seconds_to_start) ==
    LET event_type == lower(strip(type)) IN
    IF event_type \notin BreakTypes
       /\ seconds_to_start < SECONDS_BEFORE_INTERMISSION_WARNING
    THEN "pre_start"
    ELSE "normal"

between_talks_mode_untrimmed(type, seconds_to_start) ==
    LET event_type == lower(type) IN
    IF event_type \notin BreakTypes
       /\ seconds_to_start <= SECONDS_BEFORE_INTERMISSION_WARNING
    THEN "pre_start"
    ELSE "normal"

between_talks_mode_case_sensitive(type, seconds_to_start) ==
    LET event_type == strip(type) IN
    IF event_type \notin BreakTypes
       /\ seconds_to_start <= SECONDS_BEFORE_INTERMISSION_WARNING
    THEN "pre_start"
    ELSE "normal"

between_talks_mode(type, seconds_to_start) ==
    LET event_type == lower(strip(type)) IN
    IF event_type \notin BreakTypes
       /\ seconds_to_start <= SECONDS_BEFORE_INTERMISSION_WARNING
    THEN "pre_start"
    ELSE "normal"

\* Faulty variant of the engine: an upcoming event is classified before
\* the event in progress is looked at.
compute_display_state_next_first(sch, t) ==
    LET current == scan_current(sch, t, Len(sch))
        upcoming == scan_upcoming(sch, t, 1)
        next_event == IF upcoming # <<>> THEN upcoming[1] ELSE None
        following_event == IF Len(upcoming) > 1 THEN upcoming[2] ELSE None
    IN  IF current = None /\ next_event = None
        THEN [mode |-> "none", current |-> None, next_event |-> None,
              following_event |-> None, seconds_to_start |-> NoSeconds]
        ELSE IF next_event # None
        THEN LET seconds_to_start == total_seconds(sch[next_event].start, t)
             IN  [mode |-> between_talks_mode(sch[next_event].type,
                                              seconds_to_start),
                  current |-> None, next_event |-> next_event,
                  following_event |-> following_event,
                  seconds_to_start |-> max0(seconds_to_start)]
        ELSE [mode |-> "in_talk", current |-> current,
              next_event |-> next_event,
              following_event |-> following_event,
              seconds_to_start |-> NoSeconds]

compute_display_state(sch, t) ==
    LET current == scan_current(sch, t, Len(sch))
        upcoming == scan_upcoming(sch, t, 1)
        next_event == IF upcoming # <<>> THEN upcoming[1] ELSE None
        following_event == IF Len(upcoming) > 1 THEN upcoming[2] ELSE None
    IN  IF current = None /\ next_event = None
        THEN [mode |-> "none", current |-> None, next_event |-> None,
              following_event |-> None, seconds_to_start |-> NoSeconds]
        ELSE IF current # None
        THEN [mode |-> "in_talk", current |-> current,
              next_event |-> next_event,
              following_event |-> following_event,
              seconds_to_start |-> NoSeconds]
        ELSE LET seconds_to_start == total_seconds(sch[next_event].start, t)
             IN  [mode |-> between_talks_mode(sch[next_event].type,
                                              seconds_to_start),
                  current |-> None, next_event |-> next_event,
                  following_event |-> following_event,
                  seconds_to_start |-> max0(seconds_to_start)]

\* ------------------------------------------------------ SpeakerDisplayApp
\* The local variable state of update before any schedule was evaluated.
no_state ==
    [mode |-> "unset", current |-> None, next_event |-> None,
     following_event |-> None, seconds_to_start |-> NoSeconds]

\* Text of status_label chosen by the branches of update.
status_text(st) ==
    IF st.mode = "none" THEN "No more events in this room today"
    ELSE IF st.mode = "in_talk" /\ st.current # None THEN "Now on stage"
    ELSE IF st.mode = "pre_start" /\ st.next_event # None
         THEN "Starting soon"
    ELSE IF st.mode = "normal" /\ st.next_event # None
         THEN "Upcoming in this room"
    ELSE "Schedule state unknown"

\* One tick at clock reading t: the effect on the fields the model keeps.
tick_state(sch, t) ==
    IF sch = <<>> THEN no_state ELSE compute_display_state(sch, t)

tick_status(sch, t) ==
    IF sch = <<>> THEN "FAIL-SAFE: No schedule loaded"
    ELSE status_text(compute_display_state(sch, t))

\* __init__: load the schedule, then run the first update.
Init ==
    /\ schedule \in load_schedule
    /\ now \in Nows
    /\ state = tick_state(schedule, now)
    /\ status = tick_status(schedule, now)

\* update: read the wall clock (which may be set back between ticks),
\* compute the state and paint it.
update ==
    \E t \in Nows :
        /\ now' = t
        /\ state' = tick_state(schedule, t)
        /\ status' = tick_status(schedule, t)
        /\ UNCHANGED schedule

Next == update

Spec == Init /\ [][Next]_vars

\* ================================================================ properties
\* The events of the schedule in progress at the clock reading, and those
\* still to start, stated over the schedule itself.
Matching == {i \in 1..Len(schedule) :
                schedule[i].start <= now /\ now < schedule[i].end}

Future == {i \in 1..Len(schedule) : schedule[i].start >= now}

FirstFuture == CHOOSE i \in Future : \A j \in Future : i <= j

BetweenTalks == schedule # <<>> /\ Matching = {} /\ Future # {}

IsBreakOrSocial(type) == lower(strip(type)) \in BreakTypes

none_state ==
    [mode |-> "none", current |-> None, next_event |-> None,
     following_event |-> None, seconds_to_start |-> NoSeconds]

\* The state update works with always is the engine's result for the
\* schedule and the clock reading of the tick.
StateIsComputed ==
    schedule # <<>> => state = compute_display_state(schedule, now)

\* C1: when exactly one event e has start <= now < end, the state is
\* in_talk with current = e and no seconds_to_start, whatever upcoming
\* events exist and however close they are.
C1_SingleCurrentIsInTalk ==
    (schedule # <<>> /\ Cardinality(Matching) = 1) =>
        /\ state.mode = "in_talk"
        /\ state.current \in Matching
        /\ state.seconds_to_start = NoSeconds

\* C1 witness: one event in progress while another starts within the
\* pre-start window.
C1_Witness ==
    /\ Cardinality(Matching) = 1
    /\ Future # {}
    /\ schedule[FirstFuture].start - now <= 300
    /\ ~IsBreakOrSocial(schedule[FirstFuture].type)
    /\ state.mode = "in_talk"
    /\ state.next_event = FirstFuture

\* C2: with no event in progress and a next event that is no break/social,
\* the mode is pre_start for 0..300 seconds to the start and normal from 301.
C2_PreStartBoundary ==
    (BetweenTalks /\ ~IsBreakOrSocial(schedule[FirstFuture].type)) =>
        LET delta == schedule[FirstFuture].start - now IN
        /\ (delta \in 0..300 => state.mode = "pre_start")
        /\ (delta >= 301 => state.mode = "normal")

\* C2 witness: a talk starting in exactly 300 seconds is counted down to.
C2_Witness ==
    /\ BetweenTalks
    /\ schedule[FirstFuture].type = Talk
    /\ schedule[FirstFuture].start - now = 300
    /\ state.mode = "pre_start"

\* C3: with no event in progress and a next event whose trimmed, lower-cased
\* type is break or social, the mode is normal at every distance.
C3_BreakNeverCountedDown ==
    (BetweenTalks /\ IsBreakOrSocial(schedule[FirstFuture].type)) =>
        state.mode = "normal"

\* C3 witness: a padded upper-case social starting in two minutes.
C3_Witness ==
    /\ BetweenTalks
    /\ schedule[FirstFuture].type = SocialPadded
    /\ schedule[FirstFuture].start - now = 120
    /\ state.mode = "normal"

\* C4 as stated: beyond the end of the event with the greatest start, with
\* no event starting at or after now, the state is the all-None none state.
C4_Original ==
    /\ (schedule # <<>>
        /\ (\A i \in 1..Len(schedule) :
                schedule[i].start = schedule[Len(schedule)].start
                    => now > schedule[i].end)
        /\ Future = {}) => state = none_state
    /\ compute_display_state(<<>>, now) = none_state

\* C4 amended: at or beyond the end of every event, with no event starting
\* at or after now, the state is the all-None none state; the empty schedule
\* gives the none state at every now.
C4_PastEveryEndIsNone ==
    /\ (schedule # <<>>
        /\ (\A i \in 1..Len(schedule) : now >= schedule[i].end)
        /\ Future = {}) => state = none_state
    /\ compute_display_state(<<>>, now) = none_state

\* C4 witness: the clock stands exactly at the latest end of a schedule.
C4_Witness ==
    /\ schedule # <<>>
    /\ \A i \in 1..Len(schedule) : now >= schedule[i].end
    /\ \E i \in 1..Len(schedule) :
           now = schedule[i].end /\ schedule[i].start < schedule[i].end
    /\ Future = {}
    /\ state = none_state

\* C5: the two-event day, Talk 09:00-09:30 then Break 09:30-09:45.
Scenario ==
    <<Event(Talk, HHMMSS(9, 0, 0), 30), Event(Break, HHMMSS(9, 30, 0), 15)>>

\* C5 as stated: in the scenario the state is in_talk on the talk at 09:15,
\* normal at 09:27 (no countdown to a break) and none at 09:50.
C5_Original ==
    schedule = Scenario =>
        /\ (now = HHMMSS(9, 15, 0) =>
                state.mode = "in_talk" /\ state.current = 1)
        /\ (now = HHMMSS(9, 27, 0) => state.mode = "normal")
        /\ (now = HHMMSS(9, 50, 0) => state.mode = "none")

\* C5 amended: in the scenario the state is in_talk on the talk at 09:15 and
\* still at 09:27, where the break is next_event and nothing is counted
\* down, and none at 09:50.
C5_Scenario ==
    schedule = Scenario =>
        /\ (now = HHMMSS(9, 15, 0) =>
                state.mode = "in_talk" /\ state.current = 1)
        /\ (now = HHMMSS(9, 27, 0) =>
                /\ state.mode = "in_talk"
                /\ state.current = 1
                /\ state.next_event = 2
                /\ state.seconds_to_start = NoSeconds)
        /\ (now = HHMMSS(9, 50, 0) => state.mode = "none")

\* C5 witness: the scenario three minutes before the break.
C5_Witness ==
    /\ schedule = Scenario
    /\ now = HHMMSS(9, 27, 0)
    /\ state.mode = "in_talk"
    /\ status = "Now on stage"

\* C6: of several events in progress, current is one with the latest start,
\* and the last in the sequence among those of equal start.
C6_LatestStartWins ==
    Cardinality(Matching) >= 2 =>
        /\ state.current \in Matching
        /\ \A j \in Matching :
              /\ schedule[j].start <= schedule[state.current].start
              /\ schedule[j].start = schedule[state.current].start
                     => j <= state.current

\* C6 witness: two overlapping events of different starts.
C6_Witness ==
    /\ Cardinality(Matching) >= 2
    /\ \E j \in Matching : schedule[j].start < schedule[state.current].start
    /\ state.mode = "in_talk"

\* C7 as stated: whenever some event starts at now the mode is in_talk, and
\* pre_start or normal never comes with seconds_to_start = 0.
C7_Original ==
    schedule # <<>> =>
        /\ (\E i \in 1..Len(schedule) : schedule[i].start = now)
               => state.mode = "in_talk"
        /\ state.mode \in {"pre_start", "normal"}
               => state.seconds_to_start # 0

\* C7 amended: whenever some event starts at now and ends after it the mode
\* is in_talk; pre_start or normal comes with seconds_to_start = 0 only for
\* a next event that starts at now and has end <= start.
C7_StartingEventInProgress ==
    schedule # <<>> =>
        /\ (\E i \in 1..Len(schedule) :
                schedule[i].start = now /\ schedule[i].end > now)
               => state.mode = "in_talk"
        /\ (state.mode \in {"pre_start", "normal"}
            /\ state.seconds_to_start = 0)
               => /\ schedule[state.next_event].start = now
                  /\ schedule[state.next_event].end
                         <= schedule[state.next_event].start

\* C7 witness: the last event of the schedule starts this instant.
C7_Witness ==
    /\ schedule # <<>>
    /\ schedule[Len(schedule)].start = now
    /\ schedule[Len(schedule)].end > now
    /\ state.mode = "in_talk"
    /\ state.current = Len(schedule)

\* C8: once a tick has shown none, every tick at the same or a later clock
\* reading shows none.
C8_NoneIsAbsorbing ==
    [][(schedule # <<>> /\ state.mode = "none" /\ now' >= now)
           => state'.mode = "none"]_vars

\* C8 witness: none is shown at a reading later than another that shows it.
C8_Witness ==
    /\ schedule # <<>>
    /\ state.mode = "none"
    /\ \E t \in Nows :
           t < now /\ compute_display_state(schedule, t).mode = "none"

\* C9: every computed state is well-formed for its mode, seconds_to_start
\* is the unclamped distance to the next start, and update never paints
\* "Schedule state unknown".
C9_WellFormed ==
    /\ status # "Schedule state unknown"
    /\ schedule # <<>> =>
        /\ state.mode \in {"none", "in_talk", "pre_start", "normal"}
        /\ state.mode = "none" => state = none_state
        /\ state.mode = "in_talk" =>
               /\ state.current # None
               /\ state.seconds_to_start = NoSeconds
        /\ state.mode \in {"pre_start", "normal"} =>
               /\ state.current = None
               /\ state.next_event # None
               /\ state.seconds_to_start
                      = schedule[state.next_event].start - now
               /\ state.seconds_to_start >= 0

\* C9 witness: an upcoming view with time left on the clock.
C9_Witness ==
    /\ schedule # <<>>
    /\ state.mode = "normal"
    /\ state.seconds_to_start > 300
    /\ status = "Upcoming in this room"

\* C10 as stated: in mode in_talk neither next_event nor following_event is
\* the event on stage.
C10_ContextExcludesCurrent ==
    (schedule # <<>> /\ state.mode = "in_talk") =>
        /\ state.next_event # None => state.next_event # state.current
        /\ state.following_event # None
               => state.following_event # state.current

====
